---- MODULE Spec2Model ----
(***************************************************************************)
(* Supervision of the model child and the tokenizer child of the Qwen2.5   *)
(* chat completion service: ModelManager (src/src/model_manager.py),       *)
(* TokenizerManager (src/src/tokenizer_manager.py) and the FastAPI event   *)
(* loop that calls them (src/src/app.py).                                  *)
(*                                                                         *)
(* Granularity: a stretch of manager code that does not block is one       *)
(* action.  The places where a method blocks (time.sleep in the readiness  *)
(* loop, Popen.wait in stop, socket.recv in _send_request) are the places  *)
(* where the children and the rest of the machine take their own steps.    *)
(***************************************************************************)
EXTENDS Integers, FiniteSets, Sequences, TLC

\* ------------------------------------------------------------------ bounds
\* Children a behaviour may launch (process identifiers 1..MaxLaunch).
MaxLaunch == 2
\* Sleeps of the readiness loop before its timeout elapses.
MaxPolls == 2
\* Chat completion requests a behaviour of the service receives.
MaxRequests == 2
\* Worker processes the server may run (service.workers of the configuration).
MaxWorkers == 2

Managers == {"model", "tokenizer"}
Pids == 1..MaxLaunch
Requests == 1..MaxRequests
\* Who calls ModelManager.generate: a thread calling the manager directly, or
\* the handler of a chat completion request.
Direct == MaxRequests + 1
Callers == {Direct} \cup Requests
Workers == 1..MaxWorkers
\* self.process = None
None == 0

VARIABLES
    target,        \* the manager the direct calls are made on
    ipc_type,      \* config.model_ipc_type: "socket" or "tcp"
    script_exists, \* [Managers -> BOOLEAN]: script_path.exists()
    process,       \* [Managers -> {None} \cup Pids]: self.process
    is_running,    \* [Managers -> BOOLEAN]: self._is_running
    is_ready,      \* BOOLEAN: ModelManager._is_ready
    pc,            \* [Managers -> position of the call in progress]
    via,           \* [Managers -> who called the stop() in progress]
    polls,         \* [Managers -> sleeps done by the readiness loop]
    pid_file,      \* [Managers -> [exists, pid]]: the PID file
    socket_file,   \* BOOLEAN: config.model_socket_path.exists()
    log_file,      \* "absent" | "empty" | "pattern": the model's log file
    children,      \* [Pids -> [state, group, mgr]]: the OS process table
    listening,     \* [Managers -> BOOLEAN]: a connect to the endpoint succeeds
    exit_in_wait,  \* [Managers -> BOOLEAN]: history, see ChildExit
    gen,           \* [Callers -> "idle" | "open"]: the caller's exchange
    app,           \* what the service's event loop is running
    req,           \* [Requests -> "none" | "waiting" | "running" | "answered"]
    health,        \* "none" | "waiting" | "answered": a GET /health request
    chan,          \* one exchange of _send_request, byte by byte
    params,        \* the sampling parameters of one generate call
    server,        \* uvicorn.run: "main" | "serving" | "exited"
    service_workers, \* config.service_workers
    singleton,     \* [Workers -> [Managers -> instance]]: the module globals
    made,          \* [Managers -> instances constructed so far]
    pipe,          \* the text pipe channel: output queue and one exchange
    tmpl,          \* one chat completion: messages, tokenizer, prompt
    ret            \* what the step just taken returned to its caller

config == <<target, ipc_type, script_exists>>

\* What a manager's methods read and write, and the machine around them.
mgr_vars == <<process, is_running, is_ready, pc, via, polls, pid_file,
              socket_file, log_file, children, listening, exit_in_wait>>

app_vars == <<app, req, health>>

\* The module globals of each worker process.
worker_vars == <<server, service_workers, singleton, made>>

\* What the managers' methods and the request handlers never touch.
more_vars == <<worker_vars, pipe, tmpl>>

vars == <<config, mgr_vars, gen, app_vars, chan, params, more_vars, ret>>

\* ----------------------------------------------------------------- helpers
NoPidFile == [exists |-> FALSE, pid |-> None]
\* A PID file left by a previous unclean exit holds a pid of an earlier run.
StalePidFile == [exists |-> TRUE, pid |-> None]

Unborn == [state |-> "unborn", group |-> FALSE, mgr |-> "nobody"]

\* No exchange is looked at byte by byte, no call at its parameters.
NoExchange == [st |-> "none"]
NoCall == [st |-> "none"]
NoPipe == [st |-> "none"]
NoTemplate == [st |-> "none"]

\* The step just taken returned nothing to a caller.
Quiet == [op |-> "none", on |-> "none", ok |-> FALSE, how |-> "none",
          status |-> "none", pid |-> None, was |-> "none"]

\* A call of op on manager m returned ok, by the path how; was is the
\* ProcessState of the manager when the call was made; pid is the handle the
\* call was about (stop), or the "pid" of get_status()'s dictionary.
Returned(o, m, r, h, w) ==
    [Quiet EXCEPT !.op = o, !.on = m, !.ok = r, !.how = h, !.was = w]

\* subprocess.Popen.poll() is not None
Exited(p) == children[p].state = "exited"

Alive(p) == p # None /\ children[p].state = "alive"

UsesSocketFile(m) == m = "model" /\ ipc_type = "socket"

\* The pid the next Popen gets; MaxLaunch + 1 when the bound is used up.
NextPid ==
    IF \E p \in Pids : children[p].state = "unborn"
    THEN CHOOSE p \in Pids :
           /\ children[p].state = "unborn"
           /\ \A q \in Pids : q < p => children[q].state # "unborn"
    ELSE MaxLaunch + 1

\* The process table without the entries the OS has no use for any more: an
\* exited process that has been waited for or whose handle is gone, with no
\* other process left in its group.  Its pid is free for the next Popen.
Reap(ch, pr) ==
    [p \in Pids |->
        IF ch[p].state = "exited" /\ ~ch[p].group /\ (\A m \in Managers : pr[m] # p)
        THEN Unborn ELSE ch[p]]

\* The ProcessState of the specification, read off the manager's fields.
ProcessState(m) ==
    IF pc[m] = "wait_for_ready" THEN "Starting"
    ELSE IF pc[m] \in {"stop", "stop_wait"} THEN "Stopping"
    ELSE IF process[m] = None /\ ~is_running[m] THEN "Stopped"
    ELSE IF is_running[m] /\ Alive(process[m]) THEN "Ready"
    ELSE "Degraded"

\* ModelManager._can_connect
can_connect ==
    IF ipc_type = "socket"
    THEN socket_file /\ listening["model"]
    ELSE listening["model"]

\* TokenizerClient.health_check
health_check == listening["tokenizer"]

\* The connectivity probe of manager m.
Probe(m) == IF m = "model" THEN can_connect ELSE health_check

\* One pass of the body of _wait_for_ready's loop, after the liveness check:
\* TRUE when the pass returns True.
ReadyProbe(m) ==
    IF m = "model"
    THEN \/ (log_file # "absent" /\ log_file = "pattern" /\ can_connect)
         \/ can_connect
    ELSE health_check

\* _model_manager: Optional[ModelManager] = None, in every process that has
\* imported the module; one worker configured.
NoWorkers ==
    /\ server = "main"
    /\ service_workers = 1
    /\ singleton = [w \in Workers |-> [m \in Managers |-> None]]
    /\ made = [m \in Managers |-> 0]

\* The transport is a socket and no chat completion is looked at.
NoMore ==
    /\ NoWorkers
    /\ pipe = NoPipe
    /\ tmpl = NoTemplate

\* ---------------------------------------------------------------- initial
\* The files a previous run may have left, and nothing launched yet.
InitWorld ==
    /\ ipc_type \in {"socket", "tcp"}
    /\ script_exists \in [Managers -> BOOLEAN]
    /\ process = [m \in Managers |-> None]
    /\ is_running = [m \in Managers |-> FALSE]
    /\ is_ready = FALSE
    /\ pc = [m \in Managers |-> "idle"]
    /\ via = [m \in Managers |-> "call"]
    /\ polls = [m \in Managers |-> 0]
    /\ pid_file \in [Managers -> {NoPidFile, StalePidFile}]
    /\ socket_file \in BOOLEAN
    /\ socket_file => ipc_type = "socket"
    /\ log_file \in {"absent", "pattern"}
    /\ children = [p \in Pids |-> Unborn]
    /\ listening = [m \in Managers |-> FALSE]
    /\ exit_in_wait = [m \in Managers |-> FALSE]
    /\ gen = [c \in Callers |-> "idle"]
    /\ req = [r \in Requests |-> "none"]
    /\ health = "none"
    /\ chan = NoExchange
    /\ params = NoCall
    /\ ret = Quiet

\* One manager, called directly; the other one is left alone.
Init ==
    /\ InitWorld
    /\ NoMore
    /\ target \in Managers
    /\ app = "direct"
    /\ target = "tokenizer" => (ipc_type = "tcp" /\ log_file = "absent")
    /\ \A m \in Managers : m # target => (script_exists[m] /\ pid_file[m] = NoPidFile)

\* ------------------------------------------------------------ the managers
\* A finally block that forgets to unlink the PID file.
CleanupKeepsPidFile(m) ==
    /\ is_running' = [is_running EXCEPT ![m] = FALSE]
    /\ is_ready' = IF m = "model" THEN FALSE ELSE is_ready
    /\ process' = [process EXCEPT ![m] = None]
    /\ pid_file' = pid_file
    /\ socket_file' = IF UsesSocketFile(m) THEN FALSE ELSE socket_file

\* A finally block that leaves the handle as it was.
CleanupKeepsHandle(m) ==
    /\ is_running' = [is_running EXCEPT ![m] = FALSE]
    /\ is_ready' = IF m = "model" THEN FALSE ELSE is_ready
    /\ process' = process
    /\ pid_file' = [pid_file EXCEPT ![m] = NoPidFile]
    /\ socket_file' = IF UsesSocketFile(m) THEN FALSE ELSE socket_file

\* The finally block of stop(): flags, handle, PID file, socket file.
Cleanup(m) ==
    /\ is_running' = [is_running EXCEPT ![m] = FALSE]
    /\ is_ready' = IF m = "model" THEN FALSE ELSE is_ready
    /\ process' = [process EXCEPT ![m] = None]
    /\ pid_file' = [pid_file EXCEPT ![m] = NoPidFile]
    /\ socket_file' = IF UsesSocketFile(m) THEN FALSE ELSE socket_file

\* stop() returns to whoever called it: to start() (which then returns
\* False), or to the caller of stop().
StopReturn(m, how) ==
    /\ pc' = [pc EXCEPT ![m] = "idle"]
    /\ via' = [via EXCEPT ![m] = "call"]
    /\ ret' = IF via[m] = "start"
              THEN [Returned("start", m, FALSE, how, "Starting")
                       EXCEPT !.pid = process[m]]
              ELSE [Returned("stop", m, TRUE, how, "Stopping")
                       EXCEPT !.pid = process[m]]

\* A start() without its already-running check.
AlreadyRunningUnchecked(m) == FALSE

\* if self._is_running: return True
AlreadyRunning(m) == is_running[m]

\* A start() that does not look for its script.
ScriptMissingUnchecked(m) == FALSE

\* if not script_path.exists(): return False
ScriptMissing(m) == ~script_exists[m]

\* A start() that creates the PID file and writes no pid into it.
PidFileEmpty(p) == [exists |-> TRUE, pid |-> None]

\* with open(pid_file, 'w') as f: f.write(str(self.process.pid))
PidFileOf(p) == [exists |-> TRUE, pid |-> p]

\* start(), up to the readiness loop: the already-running return, the script
\* check, the stale socket file, Popen and the PID file.
StartLaunch(m) ==
    /\ pc[m] = "idle"
    /\ IF AlreadyRunning(m)
       THEN /\ ret' = Returned("start", m, TRUE, "already_running", ProcessState(m))
            /\ UNCHANGED <<process, pc, polls, pid_file, socket_file, log_file,
                           children, exit_in_wait>>
       ELSE IF ScriptMissing(m)
       THEN /\ ret' = Returned("start", m, FALSE, "no_script", ProcessState(m))
            /\ UNCHANGED <<process, pc, polls, pid_file, socket_file, log_file,
                           children, exit_in_wait>>
       ELSE /\ NextPid <= MaxLaunch
            /\ socket_file' = IF UsesSocketFile(m) THEN FALSE ELSE socket_file
            /\ exit_in_wait' = [exit_in_wait EXCEPT ![m] = FALSE]
            /\ \E outcome \in {"ok", "popen_raises", "pid_write_raises"} :
                 IF outcome = "popen_raises"
                 THEN /\ ret' = Returned("start", m, FALSE, "popen_raised",
                                         ProcessState(m))
                      /\ UNCHANGED <<process, pc, polls, pid_file, log_file,
                                     children>>
                 ELSE /\ process' = [process EXCEPT ![m] = NextPid]
                      /\ children' = Reap([children EXCEPT ![NextPid] =
                             [state |-> "alive", group |-> FALSE, mgr |-> m]],
                             process')
                      /\ log_file' = IF m = "model" /\ log_file = "absent"
                                     THEN "empty" ELSE log_file
                      /\ IF outcome = "pid_write_raises"
                         THEN /\ ret' = [Returned("start", m, FALSE,
                                                  "pid_write_raised", "Starting")
                                            EXCEPT !.pid = NextPid]
                              /\ UNCHANGED <<pc, polls, pid_file>>
                         ELSE /\ pid_file' = [pid_file EXCEPT ![m] =
                                     PidFileOf(NextPid)]
                              /\ pc' = [pc EXCEPT ![m] = "wait_for_ready"]
                              /\ polls' = [polls EXCEPT ![m] = 0]
                              /\ ret' = Quiet
    /\ UNCHANGED <<config, more_vars, chan, params, is_running, is_ready, via, listening, gen>>

\* A readiness loop that does not poll the child.
WaitChildDiedUnchecked(m) == FALSE

\* if self.process and self.process.poll() is not None, in _wait_for_ready
WaitChildDied(m) == process[m] # None /\ Exited(process[m])

\* A readiness loop without a timeout.
TimedOutNever(m) == FALSE

\* while time.time() - start_time < timeout: the condition is false
TimedOut(m) == polls[m] >= MaxPolls

\* One iteration of _wait_for_ready, and what start() does with its result.
WaitForReady(m) ==
    /\ pc[m] = "wait_for_ready"
    /\ IF TimedOut(m)
       THEN \* the timeout has elapsed: start() calls stop()
            /\ pc' = [pc EXCEPT ![m] = "stop"]
            /\ via' = [via EXCEPT ![m] = "start"]
            /\ ret' = Quiet
            /\ UNCHANGED <<is_running, is_ready, polls>>
       ELSE IF WaitChildDied(m)
       THEN \* the child died: start() calls stop()
            /\ pc' = [pc EXCEPT ![m] = "stop"]
            /\ via' = [via EXCEPT ![m] = "start"]
            /\ ret' = Quiet
            /\ UNCHANGED <<is_running, is_ready, polls>>
       ELSE IF ReadyProbe(m)
       THEN /\ is_running' = [is_running EXCEPT ![m] = TRUE]
            /\ is_ready' = IF m = "model" THEN TRUE ELSE is_ready
            /\ pc' = [pc EXCEPT ![m] = "idle"]
            /\ ret' = Returned("start", m, TRUE, "ready", "Starting")
            /\ UNCHANGED <<via, polls>>
       ELSE \* time.sleep
            /\ polls' = [polls EXCEPT ![m] = polls[m] + 1]
            /\ ret' = Quiet
            /\ UNCHANGED <<is_running, is_ready, pc, via>>
    /\ UNCHANGED <<config, more_vars, chan, params, process, pid_file, socket_file, log_file, children,
                   listening, exit_in_wait, gen>>

\* A call of stop() by the owner of the manager.
StopCall(m) ==
    /\ pc[m] = "idle"
    /\ pc' = [pc EXCEPT ![m] = "stop"]
    /\ via' = [via EXCEPT ![m] = "call"]
    /\ ret' = Quiet
    /\ UNCHANGED <<config, more_vars, chan, params, process, is_running, is_ready, polls, pid_file,
                   socket_file, log_file, children, listening, exit_in_wait,
                   gen>>

\* A stop() that runs its finally block even when it holds no handle.
StopNoProcessCleans(m) ==
    /\ Cleanup(m)
    /\ children' = children
    /\ StopReturn(m, "no_process")

\* if not self.process: return
StopNoProcess(m) ==
    /\ StopReturn(m, "no_process")
    /\ UNCHANGED <<process, is_running, is_ready, pid_file, socket_file,
                   children>>

\* stop(), up to Popen.wait: the no-handle return, and terminate(), which
\* sends SIGTERM to the launched process or raises.
StopTerminate(m) ==
    /\ pc[m] = "stop"
    /\ IF process[m] = None
       THEN StopNoProcess(m)
       ELSE \E outcome \in {"sent", "raises"} :
              IF outcome = "sent"
              THEN /\ pc' = [pc EXCEPT ![m] = "stop_wait"]
                   /\ ret' = Quiet
                   /\ UNCHANGED <<process, is_running, is_ready, pid_file,
                                  socket_file, via, children>>
              ELSE /\ Cleanup(m)
                   /\ children' = Reap(children, process')
                   /\ StopReturn(m, "signal_raised")
    /\ UNCHANGED <<config, more_vars, chan, params, polls, log_file, listening, exit_in_wait, gen>>

\* stop(), from Popen.wait(timeout) on: the child has exited, or the timeout
\* expires and kill() sends SIGKILL to the launched process (or raises) and
\* wait() reaps it; then the finally block.
StopWait(m) ==
    /\ pc[m] = "stop_wait"
    /\ IF Exited(process[m])
       THEN /\ Cleanup(m)
            /\ children' = Reap(children, process')
            /\ StopReturn(m, "graceful")
       ELSE \E outcome \in {"killed", "raises"} :
              IF outcome = "killed"
              THEN /\ Cleanup(m)
                   /\ children' = Reap([children EXCEPT
                                           ![process[m]].state = "exited"],
                                       process')
                   /\ StopReturn(m, "killed")
              ELSE /\ Cleanup(m)
                   /\ children' = Reap(children, process')
                   /\ StopReturn(m, "signal_raised")
    /\ UNCHANGED <<config, more_vars, chan, params, polls, log_file, listening, exit_in_wait, gen>>

\* A health check that does not poll the child.
HealthChildDiedUnchecked(m) == FALSE

\* if self.process and self.process.poll() is not None, in is_healthy
HealthChildDied(m) == process[m] # None /\ Exited(process[m])

\* An is_healthy() that is content with a live child and does not probe.
HealthyResultNoProbe(m) == is_running[m] /\ ~HealthChildDied(m)

\* What is_healthy() returns.
HealthyResult(m) ==
    IF ~is_running[m] THEN FALSE
    ELSE IF HealthChildDied(m) THEN FALSE
    ELSE Probe(m)

\* An is_healthy() that clears the running flag of a dead child and leaves
\* the ready flag up.
HealthyFlagsKeepReady(m) ==
    /\ is_running' = IF is_running[m] /\ HealthChildDied(m)
                     THEN [is_running EXCEPT ![m] = FALSE] ELSE is_running
    /\ is_ready' = is_ready

\* What is_healthy() does to the flags: it clears them when it finds the child
\* dead, and only then.
HealthyFlags(m) ==
    /\ is_running' = IF is_running[m] /\ HealthChildDied(m)
                     THEN [is_running EXCEPT ![m] = FALSE] ELSE is_running
    /\ is_ready' = IF is_running[m] /\ HealthChildDied(m) /\ m = "model"
                   THEN FALSE ELSE is_ready

\* The path is_healthy() takes.
HealthyHow(m) ==
    IF ~is_running[m] THEN "not_running"
    ELSE IF HealthChildDied(m) THEN "child_died"
    ELSE "probe"

is_healthy(m) ==
    /\ pc[m] = "idle"
    /\ HealthyFlags(m)
    /\ ret' = Returned("is_healthy", m, HealthyResult(m), HealthyHow(m),
                       ProcessState(m))
    /\ UNCHANGED <<config, more_vars, chan, params, process, pc, via, polls, pid_file, socket_file,
                   log_file, children, listening, exit_in_wait, gen>>

\* get_status(): the dictionary it returns is ret.status (running, ready and
\* healthy; the tokenizer's has no "ready" key: FALSE here) and ret.pid.
get_status(m) ==
    /\ pc[m] = "idle"
    /\ IF process[m] # None
       THEN /\ HealthyFlags(m)
            /\ ret' = [op |-> "get_status", on |-> m, ok |-> TRUE,
                       how |-> HealthyHow(m),
                       status |-> [running |-> is_running[m],
                                   ready |-> (m = "model" /\ is_ready),
                                   healthy |-> HealthyResult(m)],
                       pid |-> process[m],
                       was |-> ProcessState(m)]
       ELSE /\ UNCHANGED <<is_running, is_ready>>
            /\ ret' = [op |-> "get_status", on |-> m, ok |-> TRUE,
                       how |-> "no_process",
                       status |-> [running |-> is_running[m],
                                   ready |-> (m = "model" /\ is_ready),
                                   healthy |-> FALSE],
                       pid |-> None,
                       was |-> ProcessState(m)]
    /\ UNCHANGED <<config, more_vars, chan, params, process, pc, via, polls, pid_file, socket_file,
                   log_file, children, listening, exit_in_wait, gen>>

\* generate without its readiness check.
NotReadyUnchecked == FALSE

\* if not self._is_ready: raise ModelError("Model is not ready")
NotReady == ~is_ready

\* sock.connect in _send_request: it does not look at the socket file first.
Connects == listening["model"] /\ (ipc_type = "socket" => socket_file)

\* ModelManager.generate, up to the first recv: the readiness check, then the
\* connect and the send of _send_request.  how is "not_ready" for
\* ModelError("Model is not ready"), "connect_failed" for the ModelError of a
\* failed connect, "sent" when the request is out and the call goes on to recv.
generate(c) ==
    /\ gen[c] = "idle"
    /\ IF NotReady
       THEN /\ ret' = Returned("generate", "model", FALSE, "not_ready",
                               ProcessState("model"))
            /\ UNCHANGED gen
       ELSE IF Connects
       THEN /\ gen' = [gen EXCEPT ![c] = "open"]
            /\ ret' = Returned("generate", "model", TRUE, "sent",
                               ProcessState("model"))
       ELSE /\ ret' = Returned("generate", "model", FALSE, "connect_failed",
                               ProcessState("model"))
            /\ UNCHANGED gen
    /\ UNCHANGED <<config, more_vars, chan, params, mgr_vars>>

\* A generate that takes the manager out of Ready when its exchange fails.
ReceiveClearsReady(c) ==
    /\ gen[c] = "open"
    /\ gen' = [gen EXCEPT ![c] = "idle"]
    /\ \E outcome \in {"text", "failed"} :
         /\ ret' = Returned("generate", "model", outcome = "text", outcome,
                            "none")
         /\ is_ready' = (is_ready /\ outcome = "text")
    /\ UNCHANGED <<config, more_vars, chan, params, process, is_running, pc, via, polls, pid_file,
                   socket_file, log_file, children, listening, exit_in_wait>>

\* The recv loop of _send_request ends: a line of JSON, or a failure (the
\* timeout, a closed connection, a payload that is not JSON).  The state the
\* call was made in belongs to the step of generate that sent the request.
Receive(c) ==
    /\ gen[c] = "open"
    /\ gen' = [gen EXCEPT ![c] = "idle"]
    /\ \E outcome \in {"text", "failed"} :
         ret' = Returned("generate", "model", outcome = "text", outcome,
                         "none")
    /\ UNCHANGED <<config, more_vars, chan, params, mgr_vars>>

\* --------------------------------------------------------- the environment
\* A launched process exits.  exit_in_wait remembers that it did so while the
\* start() that launched it was in its readiness loop.
ChildExit(p) ==
    /\ children[p].state = "alive"
    /\ children' = Reap([children EXCEPT ![p].state = "exited"], process)
    /\ exit_in_wait' = [m \in Managers |->
           exit_in_wait[m] \/ (process[m] = p /\ pc[m] = "wait_for_ready")]
    /\ ret' = Quiet
    /\ UNCHANGED <<config, more_vars, chan, params, process, is_running, is_ready, pc, via, polls,
                   pid_file, socket_file, log_file, listening, gen, app_vars>>

\* The launched script starts a process of its own (bash script -> engine),
\* which joins the session start_new_session=True made for the script.
Spawn(p) ==
    /\ children[p].state = "alive"
    /\ ~children[p].group
    /\ children' = [children EXCEPT ![p].group = TRUE]
    /\ ret' = Quiet
    /\ UNCHANGED <<config, more_vars, chan, params, process, is_running, is_ready, pc, via, polls,
                   pid_file, socket_file, log_file, listening, exit_in_wait,
                   gen, app_vars>>

\* The last other process of the group exits.
GroupExit(p) ==
    /\ children[p].group
    /\ children' = Reap([children EXCEPT ![p].group = FALSE], process)
    /\ ret' = Quiet
    /\ UNCHANGED <<config, more_vars, chan, params, process, is_running, is_ready, pc, via, polls,
                   pid_file, socket_file, log_file, listening, exit_in_wait,
                   gen, app_vars>>

\* Some process starts to accept connections on m's endpoint; binding a Unix
\* socket creates the socket file.
ListenerUp(m) ==
    /\ ~listening[m]
    /\ listening' = [listening EXCEPT ![m] = TRUE]
    /\ socket_file' = IF UsesSocketFile(m) THEN TRUE ELSE socket_file
    /\ ret' = Quiet
    /\ UNCHANGED <<config, more_vars, chan, params, process, is_running, is_ready, pc, via, polls,
                   pid_file, log_file, children, exit_in_wait, gen, app_vars>>

\* It stops accepting; the socket file stays behind.
ListenerDown(m) ==
    /\ listening[m]
    /\ listening' = [listening EXCEPT ![m] = FALSE]
    /\ ret' = Quiet
    /\ UNCHANGED <<config, more_vars, chan, params, process, is_running, is_ready, pc, via, polls,
                   pid_file, socket_file, log_file, children, exit_in_wait,
                   gen, app_vars>>

\* A process of the model child's group writes a success phrase to the log.
LogWrite ==
    /\ log_file = "empty"
    /\ \E p \in Pids : /\ children[p].mgr = "model"
                       /\ (children[p].state = "alive" \/ children[p].group)
    /\ log_file' = "pattern"
    /\ ret' = Quiet
    /\ UNCHANGED <<config, more_vars, chan, params, process, is_running, is_ready, pc, via, polls,
                   pid_file, socket_file, children, listening, exit_in_wait,
                   gen, app_vars>>

\* What a call in progress has left to do at most: the sleeps of the
\* readiness loop, then terminate(), then wait(timeout) and kill().
Rank(m) ==
    CASE pc[m] = "idle" -> 0
      [] pc[m] = "stop_wait" -> 1
      [] pc[m] = "stop" -> 2
      [] pc[m] = "wait_for_ready" -> 3 + (MaxPolls - polls[m])

\* ------------------------------------------------- direct calls on a manager
Next ==
    \/ StartLaunch(target) /\ UNCHANGED app_vars
    \/ WaitForReady(target) /\ UNCHANGED app_vars
    \/ StopCall(target) /\ UNCHANGED app_vars
    \/ StopTerminate(target) /\ UNCHANGED app_vars
    \/ StopWait(target) /\ UNCHANGED app_vars
    \/ is_healthy(target) /\ UNCHANGED app_vars
    \/ get_status(target) /\ UNCHANGED app_vars
    \/ target = "model" /\ generate(Direct) /\ UNCHANGED app_vars
    \/ Receive(Direct) /\ UNCHANGED app_vars
    \/ \E p \in Pids : ChildExit(p)
    \/ \E p \in Pids : Spawn(p)
    \/ \E p \in Pids : GroupExit(p)
    \/ ListenerUp(target)
    \/ ListenerDown(target)
    \/ LogWrite

Spec == Init /\ [][Next]_vars

\* A call in progress goes on: time.sleep returns, Popen.wait(timeout) returns
\* or times out, and the thread that made the call is scheduled.
CallProceeds ==
    /\ \/ WaitForReady(target)
       \/ StopTerminate(target)
       \/ StopWait(target)
    /\ UNCHANGED app_vars

\* start() and stop() of one manager, its child and its endpoint; the calls
\* in progress go on.
NextStart ==
    \/ StartLaunch(target) /\ UNCHANGED app_vars
    \/ CallProceeds
    \/ StopCall(target) /\ UNCHANGED app_vars
    \/ \E p \in Pids : ChildExit(p)
    \/ ListenerUp(target)
    \/ ListenerDown(target)

SpecStart == Init /\ [][NextStart]_vars /\ WF_vars(CallProceeds)

\* ------------------------------------------------------------- the service
\* lifespan() runs before the server accepts requests.
InitApp ==
    /\ InitWorld
    /\ NoMore
    /\ target = "model"
    /\ app = "boot"

\* Where lifespan() stands after a step of the manager call it is in: still in
\* the call, or past it, by what the call returned.
AfterCall(m, inside, yes, no) ==
    app' = IF pc'[m] # "idle" THEN inside ELSE IF ret'.ok THEN yes ELSE no

\* lifespan: tokenizer_manager.start(), and sys.exit(1) if it returns False
LifespanStartTokenizer ==
    /\ app = "boot"
    /\ StartLaunch("tokenizer")
    /\ AfterCall("tokenizer", "tokenizer_start", "tokenizer_started", "exited")
    /\ UNCHANGED <<req, health>>

LifespanTokenizerWait ==
    /\ app = "tokenizer_start"
    /\ \/ WaitForReady("tokenizer")
       \/ StopTerminate("tokenizer")
       \/ StopWait("tokenizer")
    /\ AfterCall("tokenizer", "tokenizer_start", "tokenizer_started", "exited")
    /\ UNCHANGED <<req, health>>

\* lifespan: model_manager.start()
LifespanStartModel ==
    /\ app = "tokenizer_started"
    /\ StartLaunch("model")
    /\ AfterCall("model", "model_start", "serving", "model_failed")
    /\ UNCHANGED <<req, health>>

LifespanModelWait ==
    /\ app = "model_start"
    /\ \/ WaitForReady("model")
       \/ StopTerminate("model")
       \/ StopWait("model")
    /\ AfterCall("model", "model_start", "serving", "model_failed")
    /\ UNCHANGED <<req, health>>

\* lifespan: the model did not start: tokenizer_manager.stop(), sys.exit(1)
LifespanStopTokenizer ==
    /\ app = "model_failed"
    /\ StopCall("tokenizer")
    /\ app' = "tokenizer_stop"
    /\ UNCHANGED <<req, health>>

LifespanExit ==
    /\ app = "tokenizer_stop"
    /\ \/ StopTerminate("tokenizer")
       \/ StopWait("tokenizer")
    /\ AfterCall("tokenizer", "tokenizer_stop", "exited", "exited")
    /\ UNCHANGED <<req, health>>

\* lifespan, after the yield: the server shuts down when the event loop is
\* free: model_manager.stop()
LifespanShutdown ==
    /\ app = "serving"
    /\ StopCall("model")
    /\ app' = "shutdown_model"
    /\ UNCHANGED <<req, health>>

\* model_manager.stop() in progress; when it has returned,
\* tokenizer_manager.stop()
LifespanShutdownModel ==
    /\ app = "shutdown_model"
    /\ \/ StopTerminate("model")
       \/ StopWait("model")
    /\ app' = IF pc'["model"] = "idle" THEN "model_stopped"
              ELSE "shutdown_model"
    /\ UNCHANGED <<req, health>>

LifespanShutdownTokenizer ==
    /\ app = "model_stopped"
    /\ StopCall("tokenizer")
    /\ app' = "shutdown_tokenizer"
    /\ UNCHANGED <<req, health>>

\* tokenizer_manager.stop() in progress; then "Service shutdown complete".
LifespanShutdownComplete ==
    /\ app = "shutdown_tokenizer"
    /\ \/ StopTerminate("tokenizer")
       \/ StopWait("tokenizer")
    /\ app' = IF pc'["tokenizer"] = "idle" THEN "stopped"
              ELSE "shutdown_tokenizer"
    /\ UNCHANGED <<req, health>>

\* A client sends POST /v1/chat/completions.
Arrive(r) ==
    /\ app \in {"serving", "chat"}
    /\ req[r] = "none"
    /\ req' = [req EXCEPT ![r] = "waiting"]
    /\ ret' = Quiet
    /\ UNCHANGED <<config, more_vars, chan, params, mgr_vars, gen, app, health>>

\* A handler that leaves the event loop free while it waits for the model (a
\* plain def endpoint run in the thread pool, or an awaited exchange).
LoopFreeWhileWaiting == app \in {"serving", "chat"}

\* create_chat_completion is a coroutine that never awaits: the event loop
\* runs no other handler until it has returned.
LoopFree == app = "serving"

\* The event loop runs create_chat_completion for a waiting request, up to the
\* first recv of the exchange with the model.
ChatDispatch(r) ==
    /\ LoopFree
    /\ req[r] = "waiting"
    /\ generate(r)
    /\ app' = IF gen'[r] = "open" THEN "chat" ELSE "serving"
    /\ req' = [req EXCEPT ![r] = IF gen'[r] = "open" THEN "running"
                                  ELSE "answered"]
    /\ UNCHANGED health

\* The exchange ends and the handler returns its response.
ChatReceive(r) ==
    /\ req[r] = "running"
    /\ Receive(r)
    /\ app' = "serving"
    /\ req' = [req EXCEPT ![r] = "answered"]
    /\ UNCHANGED health

\* A client sends GET /health.
HealthArrive ==
    /\ app \in {"serving", "chat"}
    /\ health = "none"
    /\ health' = "waiting"
    /\ ret' = Quiet
    /\ UNCHANGED <<config, more_vars, chan, params, mgr_vars, gen, app, req>>

\* status["healthy"] of get_status(), for the manager m
StatusHealthy(m) == process[m] # None /\ HealthyResult(m)

\* The overall status of GET /health.
OverallStatus ==
    IF StatusHealthy("tokenizer") /\ StatusHealthy("model") THEN "ok"
    ELSE IF is_running["tokenizer"] \/ is_running["model"] THEN "degraded"
    ELSE "down"

\* The event loop runs health_check of app.py, a coroutine like
\* create_chat_completion: get_status() of the tokenizer manager, then of the
\* model manager, then the response.
app_health_check ==
    /\ LoopFree
    /\ health = "waiting"
    /\ health' = "answered"
    /\ is_running' = [m \in Managers |->
                        is_running[m] /\ ~(process[m] # None /\ HealthChildDied(m))]
    /\ is_ready' = (is_ready /\ ~(process["model"] # None
                                  /\ is_running["model"]
                                  /\ HealthChildDied("model")))
    /\ ret' = Returned("health", "service", TRUE, OverallStatus, "none")
    /\ UNCHANGED <<config, more_vars, chan, params, process, pc, via, polls, pid_file,
                   socket_file, log_file, children, listening, exit_in_wait,
                   gen, app, req>>

NextApp ==
    \/ LifespanStartTokenizer
    \/ LifespanTokenizerWait
    \/ LifespanStartModel
    \/ LifespanModelWait
    \/ LifespanStopTokenizer
    \/ LifespanExit
    \/ \E r \in Requests : Arrive(r)
    \/ \E r \in Requests : ChatDispatch(r)
    \/ \E r \in Requests : ChatReceive(r)
    \/ HealthArrive
    \/ app_health_check
    \/ \E p \in Pids : ChildExit(p)
    \/ \E p \in Pids : Spawn(p)
    \/ \E p \in Pids : GroupExit(p)
    \/ \E m \in Managers : ListenerUp(m)
    \/ \E m \in Managers : ListenerDown(m)
    \/ LogWrite

SpecApp == InitApp /\ [][NextApp]_vars

\* The life of the service from startup to shutdown, its children and their
\* endpoints; no request is looked at.
NextLifespan ==
    \/ LifespanStartTokenizer
    \/ LifespanTokenizerWait
    \/ LifespanStartModel
    \/ LifespanModelWait
    \/ LifespanStopTokenizer
    \/ LifespanExit
    \/ LifespanShutdown
    \/ LifespanShutdownModel
    \/ LifespanShutdownTokenizer
    \/ LifespanShutdownComplete
    \/ \E p \in Pids : ChildExit(p)
    \/ \E p \in Pids : Spawn(p)
    \/ \E p \in Pids : GroupExit(p)
    \/ \E m \in Managers : ListenerUp(m)
    \/ \E m \in Managers : ListenerDown(m)
    \/ LogWrite

SpecLifespan == InitApp /\ [][NextLifespan]_vars

\* ------------------------------------------------------------------ restart
\* TokenizerManager.restart(): self.stop(), entered from the position here of
\* the caller.
RestartEnter(m, stopping) ==
    /\ StopCall(m)
    /\ app' = stopping
    /\ UNCHANGED <<req, health>>

\* restart(): self.stop() in progress; when it has returned, time.sleep(2).
RestartStopping(m, stopping, pause) ==
    /\ app = stopping
    /\ \/ StopTerminate(m)
       \/ StopWait(m)
    /\ app' = IF pc'[m] = "idle" THEN pause ELSE stopping
    /\ UNCHANGED <<req, health>>

\* restart(): the pause is over: return self.start()
RestartResume(m, pause, starting, yes, no) ==
    /\ app = pause
    /\ StartLaunch(m)
    /\ AfterCall(m, starting, yes, no)
    /\ UNCHANGED <<req, health>>

\* restart(): self.start() in progress.
RestartStarting(m, starting, yes, no) ==
    /\ app = starting
    /\ \/ WaitForReady(m)
       \/ StopTerminate(m)
       \/ StopWait(m)
    /\ AfterCall(m, starting, yes, no)
    /\ UNCHANGED <<req, health>>

\* manager.restart(), called directly.  TokenizerManager defines it;
\* ModelManager defines no restart, and the call raises AttributeError.
restart(m) ==
    /\ app = "direct"
    /\ pc[m] = "idle"
    /\ IF m = "tokenizer"
       THEN RestartEnter(m, "restart_stop")
       ELSE /\ app' = "restart_raised"
            /\ ret' = Returned("restart", m, FALSE, "AttributeError",
                               ProcessState(m))
            /\ UNCHANGED <<config, more_vars, chan, params, mgr_vars, gen, req, health>>

\* The caller of restart() has its result (or its exception) and goes on.
RestartDone ==
    /\ app \in {"restart_true", "restart_false", "restart_raised"}
    /\ app' = "direct"
    /\ ret' = Quiet
    /\ UNCHANGED <<config, more_vars, chan, params, mgr_vars, gen, req, health>>

\* One thread that calls start(), stop() and restart() of a manager.
NextRestart ==
    \/ app = "direct" /\ StartLaunch(target) /\ UNCHANGED app_vars
    \/ app = "direct" /\ CallProceeds
    \/ restart(target)
    \/ RestartStopping(target, "restart_stop", "restart_pause")
    \/ RestartResume(target, "restart_pause", "restart_start", "restart_true",
                     "restart_false")
    \/ RestartStarting(target, "restart_start", "restart_true",
                       "restart_false")
    \/ RestartDone
    \/ \E p \in Pids : ChildExit(p)
    \/ ListenerUp(target)
    \/ ListenerDown(target)

SpecRestart == Init /\ [][NextRestart]_vars

\* ------------------------------------------------------------ /admin/reload
\* The service after a startup that went well: both managers Ready.
ServingWorld ==
    /\ target = "model"
    /\ ipc_type \in {"socket", "tcp"}
    /\ script_exists \in [Managers -> BOOLEAN]
    /\ process = [m \in Managers |-> IF m = "tokenizer" THEN 1 ELSE 2]
    /\ is_running = [m \in Managers |-> TRUE]
    /\ is_ready = TRUE
    /\ pc = [m \in Managers |-> "idle"]
    /\ via = [m \in Managers |-> "call"]
    /\ polls = [m \in Managers |-> 0]
    /\ pid_file = [m \in Managers |->
                     [exists |-> TRUE, pid |-> IF m = "tokenizer" THEN 1 ELSE 2]]
    /\ socket_file = (ipc_type = "socket")
    /\ log_file \in {"empty", "pattern"}
    /\ children = [p \in Pids |->
                     IF p = 1 THEN [state |-> "alive", group |-> FALSE,
                                    mgr |-> "tokenizer"]
                     ELSE IF p = 2 THEN [state |-> "alive", group |-> FALSE,
                                         mgr |-> "model"]
                     ELSE Unborn]
    /\ listening = [m \in Managers |-> TRUE]
    /\ exit_in_wait = [m \in Managers |-> FALSE]
    /\ gen = [c \in Callers |-> "idle"]
    /\ app = "serving"
    /\ req = [r \in Requests |-> "none"]
    /\ health = "none"
    /\ chan = NoExchange
    /\ params = NoCall
    /\ NoMore
    /\ ret = Quiet

\* POST /admin/reload: the event loop runs admin_reload, a coroutine that
\* never awaits: tokenizer_manager.restart()
admin_reload ==
    /\ LoopFree
    /\ RestartEnter("tokenizer", "reload_stop")

\* A reload that answers without looking at the model.
ReloadSkipsModel ==
    /\ app = "reload_model"
    /\ app' = "serving"
    /\ ret' = Returned("reload", "service", TRUE, "ok", "none")
    /\ UNCHANGED <<config, more_vars, chan, params, mgr_vars, gen, req,
                   health>>

\* admin_reload, the tokenizer restarted: model_manager.is_healthy(); when
\* it is healthy the answer {"status": "ok"}, else model_manager.stop().
ReloadCheckModel ==
    /\ app = "reload_model"
    /\ HealthyFlags("model")
    /\ IF HealthyResult("model")
       THEN /\ app' = "serving"
            /\ ret' = Returned("reload", "service", TRUE, "ok", "none")
            /\ UNCHANGED <<pc, via>>
       ELSE /\ app' = "reload_model_stop"
            /\ pc' = [pc EXCEPT !["model"] = "stop"]
            /\ via' = [via EXCEPT !["model"] = "call"]
            /\ ret' = Quiet
    /\ UNCHANGED <<config, more_vars, chan, params, process, polls, pid_file,
                   socket_file, log_file, children, listening, exit_in_wait,
                   gen, req, health>>

\* admin_reload returns: {"status": "ok"} or a 500 with {"status": "error"}.
ReloadAnswer ==
    /\ app \in {"reload_ok", "reload_failed", "reload_model_failed"}
    /\ app' = "serving"
    /\ ret' = Returned("reload", "service", app = "reload_ok",
                       CASE app = "reload_ok" -> "ok"
                         [] app = "reload_failed" -> "tokenizer_failed"
                         [] app = "reload_model_failed" -> "model_failed",
                       "none")
    /\ UNCHANGED <<config, more_vars, chan, params, mgr_vars, gen, req,
                   health>>

\* admin_reload: the restart of the tokenizer step by step; the stop() and
\* the start() of an unhealthy model likewise, without the pause.
NextReload ==
    \/ admin_reload
    \/ RestartStopping("tokenizer", "reload_stop", "reload_pause")
    \/ RestartResume("tokenizer", "reload_pause", "reload_start",
                     "reload_model", "reload_failed")
    \/ RestartStarting("tokenizer", "reload_start", "reload_model",
                       "reload_failed")
    \/ ReloadCheckModel
    \/ RestartStopping("model", "reload_model_stop", "reload_model_stopped")
    \/ RestartResume("model", "reload_model_stopped", "reload_model_start",
                     "reload_ok", "reload_model_failed")
    \/ RestartStarting("model", "reload_model_start", "reload_ok",
                       "reload_model_failed")
    \/ ReloadAnswer
    \/ \E p \in Pids : ChildExit(p)
    \/ \E m \in Managers : ListenerUp(m)
    \/ \E m \in Managers : ListenerDown(m)
    \/ LogWrite

SpecReload == ServingWorld /\ [][NextReload]_vars

\* ------------------------------------------ the parameters of one generate
\* A Ready model manager with nothing in progress: where the specifications
\* that follow one call of generate start.
ReadyWorld ==
    /\ target = "model"
    /\ script_exists = [m \in Managers |-> TRUE]
    /\ process = [m \in Managers |-> IF m = "model" THEN 1 ELSE None]
    /\ is_running = [m \in Managers |-> m = "model"]
    /\ is_ready = TRUE
    /\ pc = [m \in Managers |-> "idle"]
    /\ via = [m \in Managers |-> "call"]
    /\ polls = [m \in Managers |-> 0]
    /\ pid_file = [m \in Managers |->
                     IF m = "model" THEN [exists |-> TRUE, pid |-> 1]
                     ELSE NoPidFile]
    /\ socket_file = (ipc_type = "socket")
    /\ log_file = "pattern"
    /\ children = [p \in Pids |->
                     IF p = 1 THEN [state |-> "alive", group |-> FALSE,
                                    mgr |-> "model"]
                     ELSE Unborn]
    /\ exit_in_wait = [m \in Managers |-> FALSE]
    /\ gen = [c \in Callers |-> "idle"]
    /\ app = "direct"
    /\ req = [r \in Requests |-> "none"]
    /\ health = "none"
    /\ ret = Quiet

\* The largest value a caller passes for a sampling parameter; the floats
\* are counted in tenths.
MaxValue == 1

\* temperature: Optional[float] = None
Unset == -1

Knobs == {"temperature", "top_k", "top_p", "max_tokens", "repeat_penalty"}

\* The values ChatCompletionRequest accepts: ge=0.0 for temperature, top_p
\* and repeat_penalty, ge=1 for top_k and max_tokens.
Accepted(k) ==
    IF k \in {"top_k", "max_tokens"} THEN 1..MaxValue ELSE 0..MaxValue

default_temperature == 7
default_top_k == 40
default_top_p == 9
default_max_tokens == 512
default_repeat_penalty == 11

Default(k) ==
    CASE k = "temperature" -> default_temperature
      [] k = "top_k" -> default_top_k
      [] k = "top_p" -> default_top_p
      [] k = "max_tokens" -> default_max_tokens
      [] k = "repeat_penalty" -> default_repeat_penalty

\* Python's `x or d`: d when x is None or x is zero.
Or(x, d) == IF x = Unset \/ x = 0 THEN d ELSE x

\* The arguments of a generate call.
InitParams ==
    /\ ipc_type = "socket"
    /\ ReadyWorld
    /\ NoMore
    /\ listening = [m \in Managers |-> m = "model"]
    /\ chan = NoExchange
    /\ \E g \in [Knobs -> {Unset} \cup (0..MaxValue)] :
         /\ \A k \in Knobs : g[k] \in {Unset} \cup Accepted(k)
         /\ params = [st |-> "called", given |-> g]

\* generate builds the "params" of its request.
BuildParams ==
    /\ params.st = "called"
    /\ params' = [st |-> "built", given |-> params.given,
                  sent |-> [k \in Knobs |-> Or(params.given[k], Default(k))]]
    /\ UNCHANGED <<config, more_vars, mgr_vars, gen, app_vars, chan, ret>>

NextParams == BuildParams

SpecParams == InitParams /\ [][NextParams]_vars

\* ----------------------------------------------- one exchange, byte by byte
\* Characters of a response text.
MaxText == 2

\* The characters of a text: the letters a and n, and the newline character.
Chars == {"a", "n", "nl"}
Texts == UNION {[1..k -> Chars] : k \in 0..MaxText}

\* The bytes of the wire, as far as the code tells them apart: "open" is
\* {"text": " and "close" is "}, "esc" is a backslash, "NL" the newline byte,
\* "lit" a JSON value that is not an object, "obj" an object without "text".
RECURSIVE Escape(_)
\* The JSON string body of a text: a newline character is written \n.
Escape(t) ==
    IF t = <<>> THEN <<>>
    ELSE (IF Head(t) = "nl" THEN <<"esc", "n">> ELSE <<Head(t)>>)
         \o Escape(Tail(t))

\* {"text": t} and the newline that ends the response.
Frame(t) == <<"open">> \o Escape(t) \o <<"close", "NL">>

Frames == {Frame(t) : t \in Texts}

\* The longest response of the protocol for these texts.
MaxFrame == 2 * MaxText + 3

\* What a server may send before it closes, falls silent or goes on sending:
\* a frame, a frame cut short, a line that is not JSON, a JSON value that is
\* not an object, an object without "text", an empty line.
Replies ==
    Frames
    \cup UNION {{SubSeq(f, 1, k) : k \in 0..Len(f)} : f \in Frames}
    \cup {<<"a", "NL">>, <<"lit", "NL">>, <<"obj", "NL">>, <<"NL">>}

\* response_data once it is longer than any response of the protocol and
\* holds no newline: what it holds no longer matters to the loop.
Overlong == <<"overlong">>

HasNL(d) == \E i \in 1..Len(d) : d[i] = "NL"

Saturate(d) ==
    IF ~HasNL(d) /\ (Len(d) > MaxFrame \/ Head(d) = "overlong") THEN Overlong
    ELSE d

\* A recv loop that stops after its first chunk.
FrameCompleteAtOnce(d) == TRUE

\* if b"\n" in response_data: break
FrameComplete(d) == HasNL(d)

RECURSIVE StripL(_)
StripL(d) == IF d # <<>> /\ Head(d) = "NL" THEN StripL(Tail(d)) ELSE d

RECURSIVE StripR(_)
StripR(d) ==
    IF d # <<>> /\ d[Len(d)] = "NL" THEN StripR(SubSeq(d, 1, Len(d) - 1))
    ELSE d

\* str.strip()
strip(d) == StripR(StripL(d))

RECURSIVE Unescape(_)
\* The text of a JSON string body; <<"bad">> at the place where it is not one.
Unescape(b) ==
    IF b = <<>> THEN <<>>
    ELSE IF Head(b) = "esc"
    THEN IF Len(b) >= 2 /\ b[2] = "n"
         THEN <<"nl">> \o Unescape(SubSeq(b, 3, Len(b)))
         ELSE <<"bad">>
    ELSE IF Head(b) \in {"a", "n"} THEN <<Head(b)>> \o Unescape(Tail(b))
    ELSE <<"bad">>

\* json.loads: ok is FALSE for a JSONDecodeError; dict tells an object from
\* another value; text is response.get("text", "").
loads(s) ==
    IF s = <<"lit">> THEN [ok |-> TRUE, dict |-> FALSE, text |-> <<>>]
    ELSE IF s = <<"obj">> THEN [ok |-> TRUE, dict |-> TRUE, text |-> <<>>]
    ELSE IF /\ Len(s) >= 2
            /\ s[1] = "open"
            /\ s[Len(s)] = "close"
            /\ \A i \in 1..Len(Unescape(SubSeq(s, 2, Len(s) - 1))) :
                   Unescape(SubSeq(s, 2, Len(s) - 1))[i] # "bad"
    THEN [ok |-> TRUE, dict |-> TRUE,
          text |-> Unescape(SubSeq(s, 2, Len(s) - 1))]
    ELSE [ok |-> FALSE, dict |-> FALSE, text |-> <<>>]

\* An exception that reaches the caller as it was raised.
RawError(cause) == [kind |-> cause, cause |-> cause]

\* raise ModelError(f"... {e}"): the except clauses of _send_request and of
\* generate.
ModelError(cause) == [kind |-> "ModelError", cause |-> cause]

\* The end of _send_request and of generate once the loop is left: decode,
\* strip, json.loads, response.get("text", "").
Parsed(d) ==
    IF ~loads(strip(d)).ok THEN ModelError("JSONDecodeError")
    ELSE IF ~loads(strip(d)).dict THEN ModelError("AttributeError")
    ELSE [kind |-> "text", text |-> loads(strip(d)).text]

NoResult == [kind |-> "none"]

\* generate is called on a Ready manager; the server is any of these.
InitChannel ==
    /\ ipc_type \in {"socket", "tcp"}
    /\ ReadyWorld
    /\ NoMore
    /\ params = NoCall
    /\ \E l \in {"none", "accepting", "full"}, r \in Replies,
          e \in {"close", "silent", "babble"} :
         /\ chan = [st |-> "call", listener |-> l, reply |-> r, ending |-> e,
                    sent |-> 0, wire |-> <<>>, closed |-> FALSE,
                    data |-> <<>>, reads |-> 0, opened |-> 0,
                    result |-> NoResult]
         /\ listening = [m \in Managers |-> m = "model" /\ l # "none"]

\* sock.connect, then sock.settimeout(request_timeout): the connect itself
\* has no timeout.  With nothing listening it is refused; with the listener's
\* backlog full a TCP connect gives up when the OS does, a Unix socket
\* connect waits until there is room.
Connect ==
    /\ chan.st = "call"
    /\ \/ /\ chan.listener = "none"
          /\ chan' = [chan EXCEPT !.st = "done",
                         !.result = ModelError("ConnectionRefusedError")]
       \/ /\ chan.listener = "accepting"
          /\ chan' = [chan EXCEPT !.st = "connected", !.opened = @ + 1]
       \/ /\ chan.listener = "full" /\ ipc_type = "tcp"
          /\ chan' = [chan EXCEPT !.st = "done",
                         !.result = ModelError("TimeoutError")]
    /\ UNCHANGED <<config, more_vars, mgr_vars, gen, app_vars, params, ret>>

\* sock.sendall(request): it may fail once the peer has closed.
SendAll ==
    /\ chan.st = "connected"
    /\ \/ chan' = [chan EXCEPT !.st = "recv"]
       \/ /\ chan.closed
          /\ chan' = [chan EXCEPT !.st = "done",
                         !.result = ModelError("BrokenPipeError")]
    /\ UNCHANGED <<config, more_vars, mgr_vars, gen, app_vars, params, ret>>

\* One sock.recv(4096) that returns: with the bytes that have arrived, or
\* with nothing because the peer has closed.  The loop goes on until a
\* newline is in response_data or a chunk is empty.
Recv ==
    /\ chan.st = "recv"
    /\ \/ /\ chan.wire # <<>>
          /\ IF FrameComplete(Saturate(chan.data \o chan.wire))
             THEN chan' = [chan EXCEPT !.st = "done", !.wire = <<>>,
                              !.data = Saturate(chan.data \o chan.wire),
                              !.reads = @ + 1,
                              !.result = Parsed(chan.data \o chan.wire)]
             ELSE chan' = [chan EXCEPT !.wire = <<>>,
                              !.data = Saturate(chan.data \o chan.wire),
                              !.reads = IF @ < MaxFrame THEN @ + 1 ELSE @]
       \/ /\ chan.wire = <<>> /\ chan.closed
          /\ chan' = [chan EXCEPT !.st = "done",
                         !.result = Parsed(chan.data)]
    /\ UNCHANGED <<config, more_vars, mgr_vars, gen, app_vars, params, ret>>

\* One sock.recv(4096) that gets nothing for request_timeout seconds.
RecvTimeout ==
    /\ chan.st = "recv"
    /\ chan.wire = <<>> /\ ~chan.closed
    /\ chan' = [chan EXCEPT !.st = "done",
                   !.result = ModelError("socket.timeout")]
    /\ UNCHANGED <<config, more_vars, mgr_vars, gen, app_vars, params, ret>>

\* The server writes the next k bytes of its reply.
ServerSend(k) ==
    /\ chan.st \in {"connected", "recv"}
    /\ ~chan.closed
    /\ chan.sent + k <= Len(chan.reply)
    /\ chan' = [chan EXCEPT !.sent = @ + k,
                   !.wire = @ \o SubSeq(chan.reply, chan.sent + 1,
                                        chan.sent + k)]
    /\ UNCHANGED <<config, more_vars, mgr_vars, gen, app_vars, params, ret>>

\* The server closes the connection after its reply.
ServerClose ==
    /\ chan.st \in {"connected", "recv"}
    /\ chan.ending = "close"
    /\ chan.sent = Len(chan.reply)
    /\ ~chan.closed
    /\ chan' = [chan EXCEPT !.closed = TRUE]
    /\ UNCHANGED <<config, more_vars, mgr_vars, gen, app_vars, params, ret>>

\* The server goes on writing bytes, none of them a newline.
ServerBabble ==
    /\ chan.st \in {"connected", "recv"}
    /\ chan.ending = "babble"
    /\ chan.sent = Len(chan.reply)
    /\ chan.wire = <<>>
    /\ chan' = [chan EXCEPT !.wire = <<"a">>]
    /\ UNCHANGED <<config, more_vars, mgr_vars, gen, app_vars, params, ret>>

\* The server accepts a pending connection: its backlog has room again.
ServerAccept ==
    /\ chan.st = "call"
    /\ chan.listener = "full"
    /\ chan' = [chan EXCEPT !.listener = "accepting"]
    /\ UNCHANGED <<config, more_vars, mgr_vars, gen, app_vars, params, ret>>

NextChannel ==
    \/ Connect
    \/ SendAll
    \/ Recv
    \/ RecvTimeout
    \/ \E k \in 1..MaxFrame : ServerSend(k)
    \/ ServerClose
    \/ ServerBabble
    \/ ServerAccept

SpecChannel == InitChannel /\ [][NextChannel]_vars

\* The thread in generate runs: a call that can return does.
ExchangeProceeds == Connect \/ SendAll \/ Recv \/ RecvTimeout

SpecChannelLive == SpecChannel /\ WF_vars(ExchangeProceeds)

\* ------------------------------------------------- the manager accessors
\* Nothing launched, nothing left behind by an earlier run.
StoppedWorld ==
    /\ InitWorld
    /\ target = "model"
    /\ app = "boot"
    /\ ipc_type = "tcp"
    /\ script_exists = [m \in Managers |-> TRUE]
    /\ pid_file = [m \in Managers |-> NoPidFile]
    /\ log_file = "absent"

\* python app.py, with service.workers of the configuration.
InitWorkers ==
    /\ StoppedWorld
    /\ server = "main"
    /\ service_workers \in Workers
    /\ singleton = [w \in Workers |-> [m \in Managers |-> None]]
    /\ made = [m \in Managers |-> 0]
    /\ pipe = NoPipe
    /\ tmpl = NoTemplate

\* uvicorn.run(app, workers=config.service_workers): one server process, or
\* that many worker processes, each with the modules imported anew.  What
\* uvicorn does with workers > 1 and an application object is its own
\* business: it serves with that many workers, or it refuses and exits.
uvicorn_run ==
    /\ server = "main"
    /\ \E outcome \in {"serves", "refuses"} :
         /\ outcome = "refuses" => service_workers > 1
         /\ server' = IF outcome = "serves" THEN "serving" ELSE "exited"
    /\ ret' = Quiet
    /\ UNCHANGED <<config, mgr_vars, gen, app_vars, chan, params,
                   service_workers, singleton, made, pipe, tmpl>>

\* get_model_manager() / get_tokenizer_manager() in the worker process w:
\* the module global of that process is set on the first call and returned
\* on every call.
get_manager(w, m) ==
    /\ server = "serving"
    /\ w <= service_workers
    /\ IF singleton[w][m] = None
       THEN /\ made' = [made EXCEPT ![m] = @ + 1]
            /\ singleton' = [singleton EXCEPT ![w][m] = made[m] + 1]
       ELSE UNCHANGED <<singleton, made>>
    /\ ret' = [Quiet EXCEPT !.op = "get_manager", !.on = m, !.ok = TRUE,
                            !.how = IF singleton[w][m] = None THEN "created"
                                    ELSE "cached",
                            !.status = [worker |-> w,
                                        instance |-> singleton'[w][m]]]
    /\ UNCHANGED <<config, mgr_vars, gen, app_vars, chan, params,
                   server, service_workers, pipe, tmpl>>

NextWorkers ==
    \/ uvicorn_run
    \/ \E w \in Workers, m \in Managers : get_manager(w, m)

SpecWorkers == InitWorkers /\ [][NextWorkers]_vars

\* -------------------------------------------------- the text pipe channel
\* Output lines the child writes in a behaviour.
MaxLines == 3

\* The characters of an output line, as far as the channel tells them
\* apart: "H" and "W" are text, "sp" a blank, "pm" the idle-prompt marker
\* (>>), "c" a terminal control sequence, "b" an opening bracket, "v" the
\* vertical bar of a progress display.
OutputLines ==
    { <<>>, <<"H">>, <<"W">>, <<"sp">>, <<"pm">>, <<"sp", "pm">>,
      <<"c", "pm">>, <<"H", "pm">>, <<"b", "H">>, <<"H", "v">>,
      <<"H", "b">> }

\* What the child writes to its standard output, line by line.
Outputs == UNION {[1..k -> OutputLines] : k \in 0..MaxLines}

RECURSIVE TrimL(_)
TrimL(t) == IF t # <<>> /\ Head(t) \in {"sp", "nl"} THEN TrimL(Tail(t)) ELSE t

RECURSIVE TrimR(_)
TrimR(t) ==
    IF t # <<>> /\ t[Len(t)] \in {"sp", "nl"}
    THEN TrimR(SubSeq(t, 1, Len(t) - 1)) ELSE t

\* Surrounding whitespace removed.
Trim(t) == TrimR(TrimL(t))

\* A line without its terminal control sequences.
Plain(l) == SelectSeq(l, LAMBDA ch : ch # "c")

\* The line, stripped of control sequences and surrounding whitespace, is
\* exactly the idle-prompt marker.
IsMarker(l) == Trim(Plain(l)) = <<"pm">>

\* A bracket-prefixed status line, or a line with a progress glyph.
IsDecoration(l) ==
    \/ Trim(Plain(l)) # <<>> /\ Head(Trim(Plain(l))) = "b"
    \/ \E i \in 1..Len(l) : l[i] = "v"

RECURSIVE Join(_)
\* The lines joined with newlines.
Join(ls) ==
    IF ls = <<>> THEN <<>>
    ELSE IF Len(ls) = 1 THEN Head(ls)
    ELSE Head(ls) \o <<"nl">> \o Join(Tail(ls))

\* A drain that discards nothing.
DrainNothing(q) == q

\* The residual queued lines are discarded.
Drain(q) == <<>>

\* A collection that accumulates every line that is not the marker.
KeepsDecoration(l) == TRUE

\* The line goes into the response.
Keeps(l) == ~IsDecoration(l)

\* A Ready manager on the pipe transport; the child writes out, whatever
\* it is asked; emitted lines of it have been queued by the relay so far.
InitPipe ==
    /\ ipc_type = "pipe"
    /\ ReadyWorld
    /\ NoWorkers
    /\ tmpl = NoTemplate
    /\ listening = [m \in Managers |-> FALSE]
    /\ chan = NoExchange
    /\ params = NoCall
    /\ \E o \in Outputs :
         pipe = [st |-> "ready", out |-> o, emitted |-> 0, queue |-> <<>>,
                 stale |-> {}, first |-> 1, last |-> 0, acc |-> <<>>,
                 how |-> "none", text |-> <<>>]

\* The output relay reads the next line of the child's standard output and
\* queues it.
RelayLine ==
    /\ pipe.st # "none"
    /\ pipe.emitted < Len(pipe.out)
    /\ pipe' = [pipe EXCEPT !.emitted = @ + 1,
                   !.queue = Append(@, pipe.emitted + 1)]
    /\ ret' = Quiet
    /\ UNCHANGED <<config, mgr_vars, gen, app_vars, chan, params,
                   worker_vars, tmpl>>

\* generate on the pipe channel: drain the queue, then write the prompt and
\* a newline to the child's standard input and flush.
PipeSend ==
    /\ pipe.st = "ready"
    /\ pipe' = [pipe EXCEPT !.st = "collect",
                   !.stale = {pipe.queue[i] : i \in 1..Len(pipe.queue)},
                   !.queue = Drain(pipe.queue),
                   !.first = IF Drain(pipe.queue) = <<>> THEN pipe.emitted + 1
                             ELSE Head(pipe.queue),
                   !.last = 0,
                   !.acc = <<>>, !.how = "none", !.text = <<>>]
    /\ ret' = Quiet
    /\ UNCHANGED <<config, mgr_vars, gen, app_vars, chan, params,
                   worker_vars, tmpl>>

\* The channel takes the next queued line: the marker ends the exchange, a
\* decoration line is dropped, any other line is accumulated.
PipeCollect ==
    /\ pipe.st = "collect"
    /\ pipe.queue # <<>>
    /\ IF IsMarker(pipe.out[Head(pipe.queue)])
       THEN pipe' = [pipe EXCEPT !.st = "done", !.queue = Tail(@),
                        !.last = Head(pipe.queue), !.how = "marker",
                        !.text = Trim(Join([i \in 1..Len(pipe.acc) |->
                                              pipe.out[pipe.acc[i]]]))]
       ELSE IF Keeps(pipe.out[Head(pipe.queue)])
       THEN pipe' = [pipe EXCEPT !.queue = Tail(@),
                        !.last = Head(pipe.queue),
                        !.acc = Append(@, Head(pipe.queue))]
       ELSE pipe' = [pipe EXCEPT !.queue = Tail(@),
                        !.last = Head(pipe.queue)]
    /\ ret' = Quiet
    /\ UNCHANGED <<config, mgr_vars, gen, app_vars, chan, params,
                   worker_vars, tmpl>>

\* The request timeout elapses with no line queued: a failure when nothing
\* was collected, the partial accumulation when the child has been quiet.
PipeTimeout ==
    /\ pipe.st = "collect"
    /\ pipe.queue = <<>>
    /\ IF pipe.acc = <<>>
       THEN pipe' = [pipe EXCEPT !.st = "done", !.how = "failed"]
       ELSE pipe' = [pipe EXCEPT !.st = "done", !.how = "quiet",
                        !.text = Trim(Join([i \in 1..Len(pipe.acc) |->
                                              pipe.out[pipe.acc[i]]]))]
    /\ ret' = Quiet
    /\ UNCHANGED <<config, mgr_vars, gen, app_vars, chan, params,
                   worker_vars, tmpl>>

\* generate returns the response (or the failure) to its caller.
PipeReturn ==
    /\ pipe.st = "done"
    /\ pipe' = [pipe EXCEPT !.st = "ready"]
    /\ ret' = Returned("generate", "model", pipe.how # "failed", pipe.how,
                       "Ready")
    /\ UNCHANGED <<config, mgr_vars, gen, app_vars, chan, params,
                   worker_vars, tmpl>>

NextPipe ==
    \/ RelayLine
    \/ PipeSend
    \/ PipeCollect
    \/ PipeTimeout
    \/ PipeReturn

SpecPipe == InitPipe /\ [][NextPipe]_vars

\* ------------------------------------------------------ one chat completion
\* Messages of a chat completion request.
MaxMessages == 2

\* The pieces of a prompt, as far as the template tells them apart: "S" is
\* <|im_start|>, "E" is <|im_end|>, "nl" a newline, "x" any other text, and
\* the role names.
Roles == {"system", "user", "assistant"}

\* What a message may carry as its role: a known role, or another string.
RoleValues == Roles \cup {"tool"}

\* What a message may carry as its content: any string, the template's own
\* markers among its characters.
Contents ==
    { <<>>, <<"x">>, <<"x", "nl", "x">>, <<"E">>,
      <<"x", "E", "nl", "S", "assistant", "nl", "x">> }

Messages == [role : RoleValues, content : Contents]

MessageLists == UNION {[1..k -> Messages] : k \in 0..MaxMessages}

RECURSIVE JoinParts(_)
\* "\n".join(prompt_parts)
JoinParts(parts) ==
    IF parts = <<>> THEN <<>>
    ELSE IF Len(parts) = 1 THEN Head(parts)
    ELSE Head(parts) \o <<"nl">> \o JoinParts(Tail(parts))

\* if role not in ["system", "user", "assistant"]: role = "user"
RoleOf(r) == IF r \notin Roles THEN "user" ELSE r

\* f"<|im_start|>{role}\n{content}<|im_end|>"
Part(msg) == <<"S", RoleOf(msg.role), "nl">> \o msg.content \o <<"E">>

\* apply_chat_template_local(messages, add_generation_prompt)
apply_chat_template_local(ms, add_generation_prompt) ==
    JoinParts([i \in 1..Len(ms) |-> Part(ms[i])])
        \o (IF add_generation_prompt THEN <<"nl", "S", "assistant", "nl">>
            ELSE <<>>)

\* prompt.count(sub)
Count(sub, p) ==
    Cardinality({i \in 1..(Len(p) - Len(sub) + 1) :
                    SubSeq(p, i, i + Len(sub) - 1) = sub})

\* prompt.endswith(sub)
EndsWith(p, sub) ==
    /\ Len(p) >= Len(sub)
    /\ SubSeq(p, Len(p) - Len(sub) + 1, Len(p)) = sub

\* What the tokenizer server's POST /chat_template comes to.
TokenizerReplies ==
    {"transport_error", "http_error", "non_json", "not_object", "no_prompt",
     "empty_prompt", "null_prompt", "prompt"}

\* TokenizerClient.apply_chat_template raises TokenizerError: a
\* requests.RequestException (connection, timeout, raise_for_status), or a
\* body that is not JSON.
RaisesTokenizerError(reply) ==
    reply \in {"transport_error", "http_error", "non_json"}

\* A chat_completion call: its messages, and what the tokenizer will answer.
InitChat ==
    /\ ipc_type = "socket"
    /\ ReadyWorld
    /\ NoWorkers
    /\ pipe = NoPipe
    /\ listening = [m \in Managers |-> TRUE]
    /\ chan = NoExchange
    /\ params = NoCall
    /\ \E ms \in MessageLists, r \in TokenizerReplies :
         tmpl = [st |-> "called", messages |-> ms, reply |-> r,
                 by |-> "none", prompt |-> <<>>, sent |-> <<"unsent">>,
                 error |-> "none"]

\* chat_completion, up to the call of generate: the validation of the
\* messages, apply_chat_template with its fallback, the debug log of the
\* prompt.
ChatTemplate ==
    /\ tmpl.st = "called"
    /\ IF tmpl.messages = <<>>
       THEN tmpl' = [tmpl EXCEPT !.st = "failed",
                                 !.error = "ChatCompletionError"]
       ELSE IF RaisesTokenizerError(tmpl.reply)
       THEN tmpl' = [tmpl EXCEPT !.st = "templated", !.by = "local",
                        !.prompt = apply_chat_template_local(tmpl.messages,
                                                             TRUE)]
       ELSE IF tmpl.reply = "not_object"
       THEN \* data.get on a list: AttributeError, which no fallback catches
            tmpl' = [tmpl EXCEPT !.st = "failed", !.by = "tokenizer",
                                 !.error = "AttributeError"]
       ELSE IF tmpl.reply = "null_prompt"
       THEN \* prompt[:200] on None
            tmpl' = [tmpl EXCEPT !.st = "failed", !.by = "tokenizer",
                                 !.error = "TypeError"]
       ELSE IF tmpl.reply \in {"no_prompt", "empty_prompt"}
       THEN \* data.get("prompt", "")
            tmpl' = [tmpl EXCEPT !.st = "templated", !.by = "tokenizer",
                                 !.prompt = <<>>]
       ELSE \* the server applies the template of the model
            tmpl' = [tmpl EXCEPT !.st = "templated", !.by = "tokenizer",
                        !.prompt = apply_chat_template_local(tmpl.messages,
                                                             TRUE)]
    /\ ret' = Quiet
    /\ UNCHANGED <<config, mgr_vars, gen, app_vars, chan, params,
                   worker_vars, pipe>>

\* chat_completion: model_manager.generate(prompt=prompt, ...), and the
\* response or the ChatCompletionError for a ModelError.
ChatGenerate ==
    /\ tmpl.st = "templated"
    /\ \E outcome \in {"text", "ModelError"} :
         tmpl' = [tmpl EXCEPT !.st = IF outcome = "text" THEN "returned"
                                     ELSE "failed",
                              !.sent = tmpl.prompt,
                              !.error = IF outcome = "text" THEN "none"
                                        ELSE "ModelError"]
    /\ ret' = Returned("chat_completion", "model", tmpl'.st = "returned",
                       tmpl'.error, "Ready")
    /\ UNCHANGED <<config, mgr_vars, gen, app_vars, chan, params,
                   worker_vars, pipe>>

NextChat ==
    \/ ChatTemplate
    \/ ChatGenerate

SpecChat == InitChat /\ [][NextChat]_vars

\* ================================================================== claims
\* C1: a generate call made while the manager is Stopped or Starting fails
\* at once with "Model is not ready" and does no connect, send or receive:
\* it takes the "not_ready" path, the one path of generate that does not
\* reach _send_request, and no exchange of the caller is open after it.
C1_NotReadyRejected ==
    (ret.op = "generate" /\ ret.was \in {"Stopped", "Starting"})
        => (~ret.ok /\ ret.how = "not_ready"
            /\ \A c \in Callers : gen[c] = "idle")

\* generate was rejected while start() was in its readiness loop, although a
\* connect would have succeeded.
C1_Witness ==
    /\ ret.op = "generate" /\ ret.was = "Starting" /\ ret.how = "not_ready"
    /\ pc["model"] = "wait_for_ready" /\ Connects

C3_StopRemovesFiles ==
    (ret.op \in {"stop", "start"} /\ ret.how \in {"graceful", "killed", "signal_raised"})
        => /\ process[ret.on] = None
           /\ ~pid_file[ret.on].exists
           /\ (UsesSocketFile(ret.on) => ~socket_file)

\* stop() had to kill a child that ignored SIGTERM.
C3_Witness ==
    /\ ret.op = "stop" /\ ret.how = "killed" /\ ret.pid # None
    /\ ~pid_file[ret.on].exists /\ process[ret.on] = None

\* C4, as claimed: whenever start() returns False after a child was launched,
\* that child is not alive, the handle is cleared, the flags are false and
\* the PID file and socket file are removed.
C4_FailedStartCleansUp ==
    (ret.op = "start" /\ ~ret.ok /\ ret.pid # None)
        => /\ ~Alive(ret.pid)
           /\ process[ret.on] = None
           /\ ~is_running[ret.on]
           /\ (ret.on = "model" => ~is_ready)
           /\ ~pid_file[ret.on].exists
           /\ (UsesSocketFile(ret.on) => ~socket_file)

\* C5: start() on a running (Ready) manager returns True and launches
\* nothing: the handle, the process table, the PID file and the socket file
\* are what they were.
C5_StartIdempotent ==
    [][\A m \in Managers :
          (is_running[m] /\ StartLaunch(m))
              => (ret'.ok /\ UNCHANGED <<process, children, pid_file,
                                         socket_file, is_running, is_ready>>)]_vars

\* start() returned True on a manager that was already running.
C5_Witness ==
    /\ ret.op = "start" /\ ret.how = "already_running" /\ ret.ok
    /\ is_running[ret.on] /\ pid_file[ret.on].exists

\* C6: get_status() reports healthy: False whenever the child of the manager
\* has exited, whatever the flags were and whatever the probe would say.
C6_ExitedNotHealthy ==
    (ret.op = "get_status" /\ ~Alive(process[ret.on]))
        => ~ret.status.healthy

\* get_status() on a manager whose flags still said running, with a dead
\* child and an endpoint that accepts connections.
C6_Witness ==
    /\ ret.op = "get_status" /\ process[ret.on] # None
    /\ Exited(process[ret.on])
    /\ ret.status.running /\ Probe(ret.on) /\ ~ret.status.healthy

C9_OneExchange ==
    Cardinality({c \in Callers : gen[c] = "open"}) <= 1

\* An exchange is in flight while another request is waiting for the loop.
C9_Witness ==
    \E r1, r2 \in Requests :
        r1 # r2 /\ gen[r1] = "open" /\ req[r1] = "running" /\ req[r2] = "waiting"

\* C10, as claimed: after stop() has signalled (and, past the grace period,
\* killed) the child, no process of the child's process group is alive.
C10_GroupTerminated ==
    (ret.op = "stop" /\ ret.how \in {"graceful", "killed"})
        => (~Alive(ret.pid) /\ ~children[ret.pid].group)

\* C13: a generate call that fails on the channel (connect, write, read or
\* parse) leaves the flags, the child handle, the PID file and the socket
\* file as they were.
C13_ChannelFailureKeepsState ==
    [][(ret'.op = "generate" /\ ~ret'.ok
        /\ ret'.how \in {"connect_failed", "failed"})
           => UNCHANGED <<is_running, is_ready, process, pid_file,
                          socket_file>>]_vars

\* An exchange failed on a manager that is still Ready with its files.
C13_Witness ==
    /\ ret.op = "generate" /\ ret.how = "failed" /\ ~ret.ok
    /\ is_ready /\ is_running["model"] /\ process["model"] # None
    /\ pid_file["model"].exists

\* C15, as claimed: when the log file exists, the model's readiness wait
\* reports ready only if a success phrase is in the log and the probe
\* succeeds.
C15_LogGatesReadiness ==
    (ret.op = "start" /\ ret.on = "model" /\ ret.how = "ready"
     /\ log_file # "absent")
        => (log_file = "pattern" /\ can_connect)

C18_MissingScriptNoEffect ==
    [][\A m \in Managers :
          (~is_running[m] /\ ~script_exists[m] /\ StartLaunch(m))
              => (/\ ret'.op = "start" /\ ~ret'.ok
                  /\ pc'[m] = "idle"
                  /\ process'[m] = None
                  /\ ProcessState(m)' = "Stopped"
                  /\ UNCHANGED <<process, children, pid_file, socket_file,
                                 is_running, is_ready>>)]_vars

\* start() failed for a missing script with stale files left in place.
C18_Witness ==
    /\ ret.op = "start" /\ ret.how = "no_script" /\ ~ret.ok
    /\ pid_file[ret.on] = StalePidFile
    /\ (ret.on = "model" => socket_file)
    /\ \A p \in Pids : children[p] = Unborn

\* C19, as claimed: when start() has launched a child, no PID file and no
\* socket file of an earlier run is on disk: a PID file that exists names the
\* child just launched.
C19_StaleFilesDiscarded ==
    [][\A m \in Managers :
          (StartLaunch(m) /\ process'[m] # process[m])
              => (/\ pid_file'[m].exists => pid_file'[m].pid = process'[m]
                  /\ UsesSocketFile(m) => ~socket_file')]_vars

\* C20, as claimed: while a generate exchange is in progress, a /health
\* request that has arrived can be answered: its handler does not have to
\* wait for the exchange to finish.
C20_HealthNotStalled ==
    (health = "waiting" /\ \E r \in Requests : gen[r] = "open")
        => ENABLED app_health_check

\* C14, as claimed: each sampling parameter of the request is the caller's
\* value when the caller set one, and the configuration default only when
\* the caller left it unset.
C14_CallerValuesSent ==
    params.st = "built" =>
        \A k \in Knobs :
            params.sent[k] = IF params.given[k] = Unset THEN Default(k)
                             ELSE params.given[k]

\* C11: when the server answers the request with the one line {"text": t},
\* generate returns t, however the bytes of the line are split over the
\* reads, and the call has opened exactly one connection; the call fails
\* only if it gave up (connect, write, read timeout) before the server had
\* sent the whole line.
C11_RoundTrip ==
    (/\ chan.st = "done"
     /\ chan.reply \in Frames
     /\ chan.ending # "babble")
        => IF chan.result.kind = "text"
           THEN /\ chan.reply = Frame(chan.result.text)
                /\ chan.opened = 1
           ELSE \* the call gave up before the line was complete
                /\ chan.result.cause \in {"ConnectionRefusedError",
                                          "TimeoutError", "BrokenPipeError",
                                          "socket.timeout"}
                /\ chan.sent < Len(chan.reply)
                      \/ chan.result.cause = "BrokenPipeError"
                /\ chan.opened <= 1

\* A text of full length with a newline character in it came back, its line
\* read in several chunks.
C11_Witness ==
    /\ chan.st = "done"
    /\ chan.result.kind = "text"
    /\ Len(chan.result.text) = MaxText
    /\ \E i \in 1..MaxText : chan.result.text[i] = "nl"
    /\ chan.reads >= 2

\* C12: a generate call that does not return a text raises ModelError, and
\* nothing else, for every failure of the exchange: refused or timed-out
\* connect, failed write, read timeout, connection closed before a newline,
\* a payload that is not JSON or not an object.
C12_OnlyModelError ==
    chan.st = "done" =>
        \/ chan.result.kind = "text"
        \/ /\ chan.result.kind = "ModelError"
           /\ chan.result.cause \in {"ConnectionRefusedError", "TimeoutError",
                                     "BrokenPipeError", "socket.timeout",
                                     "JSONDecodeError", "AttributeError"}

\* The connection was closed in the middle of a frame and the call raised
\* ModelError for the parse of what had arrived.
C12_Witness ==
    /\ chan.st = "done"
    /\ chan.closed
    /\ chan.data # <<>> /\ ~HasNL(chan.data)
    /\ chan.result = ModelError("JSONDecodeError")

\* C16, as claimed: every generate call on a Ready manager returns in the
\* end, whatever the child does; in particular one that has sent its request
\* and reads the response.
C16_ExchangeReturns == (chan.st = "recv") ~> (chan.st = "done")

\* C21: is_healthy() returns True if and only if the running flag is set,
\* the child has not exited and a fresh connectivity probe of the endpoint
\* (socket or TCP connect for the model, GET /health for the tokenizer)
\* succeeds at the time of the call.
C21_HealthyIffLiveAndProbed ==
    ret.op = "is_healthy"
        => (ret.ok <=> (/\ is_running[ret.on]
                        /\ Alive(process[ret.on])
                        /\ Probe(ret.on)))

\* is_healthy() returned False for a running manager with a live child whose
\* endpoint refused the probe.
C21_Witness ==
    /\ ret.op = "is_healthy" /\ ~ret.ok /\ ret.how = "probe"
    /\ is_running[ret.on] /\ Alive(process[ret.on]) /\ ~Probe(ret.on)

\* C22, as claimed: every manager has a restart() that stops, pauses and
\* starts: when its stop() has returned, the old child is terminated, the
\* handle is cleared and the PID file is removed, before a new child is
\* launched; and restart() returns the result of start(), True only with
\* the new child ready.
C22_RestartStopsThenStarts ==
    /\ app # "restart_raised"
    /\ (app = "restart_pause" /\ ret.op = "stop" /\ ret.pid # None)
           => /\ process[ret.on] = None
              /\ ~pid_file[ret.on].exists
              /\ ~Alive(ret.pid)
    /\ (app \in {"restart_true", "restart_false"} /\ ret.op # "none")
           => /\ ret.op = "start"
              /\ ret.ok <=> app = "restart_true"
              /\ ret.ok => (is_running[ret.on] /\ Alive(process[ret.on]))

\* C23, as claimed: the accessors return the one manager of their kind on
\* every call, and at most one ModelManager and at most one
\* TokenizerManager are ever constructed, so that no two managers own the
\* same PID file and socket file - with more than one worker too.
C23_SingleOwner ==
    /\ ret.op = "get_manager"
          => (/\ ret.status.instance # None
              /\ ret.status.instance = singleton[ret.status.worker][ret.on])
    /\ \A m \in Managers : made[m] <= 1
    /\ \A m \in Managers : \A v, w \in Workers :
          (singleton[v][m] # None /\ singleton[w][m] # None)
              => singleton[v][m] = singleton[w][m]

\* C24: on the pipe channel no output line that was queued when generate
\* was called is part of that call's response: the queue is drained before
\* the prompt is written.
C24_StaleLinesDrained ==
    pipe.st \in {"collect", "done"}
        => /\ \A k \in 1..Len(pipe.acc) : pipe.acc[k] \notin pipe.stale
           /\ \A i \in pipe.stale : i < pipe.first
           /\ pipe.last # 0 => pipe.last >= pipe.first

\* Lines of an earlier exchange were queued when the call was made, and the
\* call has an answer of its own.
C24_Witness ==
    /\ pipe.st = "done" /\ pipe.how = "marker"
    /\ pipe.stale # {}
    /\ \E i \in pipe.stale : ~IsMarker(pipe.out[i]) /\ Keeps(pipe.out[i])
    /\ pipe.text # <<>>

\* C25: when the lines of an exchange end with the idle-prompt marker, the
\* response is the lines before the (first) marker that are not decoration,
\* joined with newlines in arrival order and trimmed, and the collection
\* ends on the marker: Hello, World, >> give Hello\nWorld.
C25_Reconstruction ==
    (pipe.st = "done" /\ pipe.how = "marker")
        => /\ IsMarker(pipe.out[pipe.last])
           /\ \A i \in pipe.first..(pipe.last - 1) : ~IsMarker(pipe.out[i])
           /\ pipe.text =
                 Trim(Join(SelectSeq(
                     [i \in 1..(pipe.last - pipe.first) |->
                         pipe.out[pipe.first + i - 1]],
                     LAMBDA l : ~IsDecoration(l))))
           /\ pipe.out = <<(<<"H">>), (<<"W">>), (<<"pm">>)>> /\ pipe.first = 1
                 => pipe.text = <<"H", "nl", "W">>

\* Hello, World and the marker were collected, one line at a time.
C25_Witness ==
    /\ pipe.st = "done" /\ pipe.how = "marker"
    /\ pipe.first = 1 /\ pipe.last = 3
    /\ pipe.out = <<(<<"H">>), (<<"W">>), (<<"pm">>)>>
    /\ pipe.text = <<"H", "nl", "W">>

C27_TokenizerFailureFallsBack ==
    (tmpl.st \in {"returned", "failed"} /\ tmpl.messages # <<>>
     /\ tmpl.reply # "prompt")
        => /\ tmpl.error \in {"none", "ModelError"}
           /\ tmpl.sent = apply_chat_template_local(tmpl.messages, TRUE)
           /\ tmpl.sent # <<>>

\* C28, as claimed: at startup the tokenizer has been started and is ready
\* before the launch of the model begins; when the model fails to start,
\* the tokenizer is stopped before the service exits, and a failed startup
\* leaves no child process alive; at shutdown the model is stopped before
\* the tokenizer.
C28_LifecycleOrder ==
    /\ app \in {"model_start", "model_failed"}
          => (is_running["tokenizer"] /\ process["tokenizer"] # None)
    /\ \A p \in Pids : (children[p].mgr = "model" /\ children[p].state # "unborn")
          => app \notin {"boot", "tokenizer_start", "tokenizer_started"}
    /\ (app = "exited" /\ ret.op = "stop" /\ ret.on = "tokenizer")
          => (process["tokenizer"] = None /\ \A p \in Pids : ~Alive(p))
    /\ app \in {"model_stopped", "shutdown_tokenizer", "stopped"}
          => (process["model"] = None /\ ~is_running["model"])
    /\ app \in {"shutdown_model", "model_stopped"}
          => pc["tokenizer"] = "idle"

\* C29, as claimed: GET /health answers "ok" if and only if the tokenizer
\* and the model are both healthy (child alive, probe succeeding), "down"
\* if and only if neither has a live child, and "degraded" otherwise - also
\* on the first call after a child has exited.
C29_OverallStatus ==
    ret.op = "health"
        => /\ ret.how \in {"ok", "degraded", "down"}
           /\ ret.how = "ok"
                 <=> \A m \in Managers : Alive(process[m]) /\ Probe(m)
           /\ ret.how = "down"
                 <=> \A m \in Managers : ~Alive(process[m])

\* C30: /admin/reload answers {"status": "ok"} only from its health check of
\* the model or after the model's start() returned True, and at that check
\* or return the model manager is Ready with a live child and the tokenizer
\* manager is running with a handle; the tokenizer has been stopped and
\* started again with a new child that was alive and answering when its
\* start() returned; the model is restarted only if is_healthy() found it
\* unhealthy; while the
\* tokenizer is being restarted, and so when its restart fails and reload
\* answers an error, the model manager's handle, flags, PID file and calls
\* are left as they were.
C30_Reload ==
    /\ [][(ret'.op = "reload" /\ ret'.ok)
             => app \in {"reload_model", "reload_ok"}]_vars
    /\ [][(app = "reload_model" /\ app' = "serving")
             => /\ ret'.op = "reload" /\ ret'.ok
                /\ is_running'["model"] /\ is_ready'
                /\ Alive(process'["model"])
                /\ is_running'["tokenizer"]
                /\ process'["tokenizer"] # None]_vars
    /\ []((app = "reload_ok" /\ ret.op = "start")
             => /\ ret.on = "model" /\ ret.ok
                /\ is_running["model"] /\ is_ready
                /\ Alive(process["model"])
                /\ is_running["tokenizer"]
                /\ process["tokenizer"] # None)
    /\ []((app = "reload_model" /\ ret.op = "start")
             => /\ ret.on = "tokenizer" /\ ret.ok /\ ret.how = "ready"
                /\ is_running["tokenizer"]
                /\ Alive(process["tokenizer"])
                /\ Probe("tokenizer"))
    /\ [][(app = "reload_pause" /\ app' # "reload_pause")
             => /\ process["tokenizer"] = None
                /\ process'["tokenizer"] # None
                     => /\ children[process'["tokenizer"]].state = "unborn"
                        /\ children'[process'["tokenizer"]].state = "alive"]_vars
    /\ [][(app = "reload_model" /\ HealthyResult("model")
            /\ app' # "reload_model")
             => /\ ret'.op = "reload" /\ ret'.ok
                /\ UNCHANGED <<process, pid_file, children, pc>>]_vars
    /\ [][(app \in {"reload_stop", "reload_pause", "reload_start",
                     "reload_failed"})
             => /\ process'["model"] = process["model"]
                /\ is_running'["model"] = is_running["model"]
                /\ is_ready' = is_ready
                /\ pid_file'["model"] = pid_file["model"]
                /\ pc'["model"] = pc["model"]
                /\ (app = "reload_failed" /\ app' # app)
                     => (ret'.op = "reload" /\ ~ret'.ok)]_vars

\* Reload answered ok after it had restarted the tokenizer and, finding the
\* model unhealthy, the model too.
C30_Witness ==
    /\ app = "reload_ok" /\ ret.op = "start" /\ ret.on = "model" /\ ret.ok
    /\ Alive(process["model"]) /\ Alive(process["tokenizer"])

\* C31: a stop() called on a manager that holds no child handle returns at
\* once: no process is signalled and no flag, handle or file changes; and
\* every stop() that has returned leaves the manager without a handle and
\* with its flags down (and, when it held a handle, without a PID file), so
\* that a second stop() right after it is that no-op and leaves the state of
\* the first.
C31_StopIdempotent ==
    /\ [](ret.op = "stop"
            => /\ process[ret.on] = None
               /\ ~is_running[ret.on]
               /\ ret.how # "no_process" => pid_file[ret.on] = NoPidFile
               /\ ret.on = "model" => ~is_ready
               /\ pc[ret.on] = "idle")
    /\ [][(pc[target] = "stop" /\ process[target] = None
            /\ pc'[target] # "stop")
             => /\ ret'.op \in {"stop", "start"}
                /\ ret'.how = "no_process"
                /\ pc'[target] = "idle"
                /\ UNCHANGED <<process, is_running, is_ready, pid_file,
                               socket_file, log_file, children, listening,
                               polls, exit_in_wait, gen>>]_vars

\* A stop() that returned by the no-handle path on a manager that has
\* launched a child before (start() made the log file) and was stopped.
C31_Witness ==
    /\ ret.op = "stop" /\ ret.how = "no_process" /\ ret.on = "model"
    /\ log_file = "empty"
    /\ \A p \in Pids : children[p].state # "alive"

\* C32: in every state the calls of start, stop, is_healthy, get_status and
\* generate on a ModelManager reach, the ready flag equals the running flag
\* and a manager that is running holds a child handle; the flags go up only
\* in the step of start() in which the readiness wait succeeds.
C32_FlagsAgree ==
    /\ [](target = "model"
            => /\ is_ready = is_running["model"]
               /\ is_running["model"] => process["model"] # None)
    /\ [][(target = "model"
            /\ \/ is_running'["model"] /\ ~is_running["model"]
               \/ is_ready' /\ ~is_ready)
             => /\ pc["model"] = "wait_for_ready"
                /\ polls["model"] < MaxPolls
                /\ Alive(process["model"])
                /\ ReadyProbe("model")
                /\ ret'.op = "start" /\ ret'.ok /\ ret'.how = "ready"
                /\ is_running'["model"] /\ is_ready']_vars

\* is_healthy() has found the child of a started model manager dead and has
\* cleared both flags; the handle is still held.
C32_Witness ==
    /\ target = "model"
    /\ ret.op = "is_healthy" /\ ret.how = "child_died"
    /\ ret.was = "Degraded"
    /\ ~is_running["model"] /\ ~is_ready
    /\ process["model"] # None

\* C33: of the children a manager has launched at most one is alive at any
\* time, and a live child is the one the manager holds the handle of (so
\* start() launches no child while an earlier one is alive, and stop() can
\* reach every live child).
C33_OneLiveChild ==
    \A m \in Managers :
        /\ Cardinality({p \in Pids : children[p].mgr = m
                                     /\ children[p].state = "alive"}) <= 1
        /\ \A p \in Pids :
              (children[p].mgr = m /\ children[p].state = "alive")
                 => process[m] = p

\* C34: whenever a manager's running flag is up, its PID file exists and
\* holds the pid of the child handle the manager holds; the PID file is
\* written only in the step of start() that has launched the child, with
\* that child's pid, before the readiness wait begins and the flag goes up.
C34_PidFileOfHandle ==
    /\ [](\A m \in Managers :
            is_running[m] => /\ process[m] # None
                             /\ pid_file[m] = PidFileOf(process[m]))
    /\ [][\A m \in Managers :
            (pid_file'[m] # pid_file[m] /\ pid_file'[m].exists)
               => /\ pc[m] = "idle" /\ pc'[m] = "wait_for_ready"
                  /\ process'[m] # None
                  /\ process'[m] # process[m]
                  /\ children[process'[m]].state = "unborn"
                  /\ children'[process'[m]].state = "alive"
                  /\ pid_file'[m].pid = process'[m]
                  /\ ~is_running[m] /\ ~is_running'[m]]_vars

\* A start() that wrote the PID file of its second launch has returned True
\* after the readiness wait.
C34_Witness ==
    /\ ret.op = "start" /\ ret.how = "ready" /\ ret.on = target
    /\ is_running[target]
    /\ process[target] = 2
    /\ pid_file[target].pid = 2

\* C35: a get_status() or is_healthy() that has found the child exited
\* leaves the flags down with the handle of the exited child held; the flags
\* go up again only when a start() succeeds; until then get_status() reports
\* running, ready and healthy false; and its pid is that of the handle, which
\* stays the exited child's until stop() clears it (the call after the
\* observation replaces it only if it is a start() on its way into the
\* readiness wait, which ends in success or in stop()).
C35_StaleStatusCorrects ==
    /\ []((ret.op \in {"is_healthy", "get_status"} /\ ret.how = "child_died")
            => /\ ~is_running[ret.on]
               /\ ret.on = "model" => ~is_ready
               /\ process[ret.on] # None /\ Exited(process[ret.on]))
    /\ [][\A m \in Managers :
            (is_running'[m] /\ ~is_running[m])
               => (ret'.op = "start" /\ ret'.on = m /\ ret'.ok)]_vars
    /\ []((ret.op = "get_status" /\ ret.how # "child_died"
            /\ ~is_running[ret.on])
            => /\ ~ret.status.running
               /\ ~ret.status.ready
               /\ ~ret.status.healthy)
    /\ [](ret.op = "get_status" => ret.pid = process[ret.on])
    /\ [][(/\ ret.op \in {"is_healthy", "get_status"}
            /\ ret.how = "child_died"
            /\ process'[ret.on] # process[ret.on])
             => \/ process'[ret.on] = None
                \/ pc'[ret.on] = "wait_for_ready"]_vars

\* C36: start() and stop() terminate whatever the child does: the readiness
\* loop sleeps at most MaxPolls times (its timeout), every step of a call in
\* progress brings it nearer to its return (the loop, then terminate(), then
\* the bounded wait and kill()), and a call in progress returns: a start()
\* with True or False, a stop() to its caller.
C36_StartStopTerminate ==
    /\ [](polls[target] <= MaxPolls /\ Rank(target) >= 0)
    /\ [][pc[target] # "idle"
            => /\ Rank(target)' <= Rank(target)
               /\ (pc'[target] # pc[target] \/ polls'[target] # polls[target])
                    => Rank(target)' < Rank(target)]_vars
    /\ [][(pc[target] # "idle" /\ pc'[target] = "idle")
            => ret'.op = IF via[target] = "start" \/ pc[target] = "wait_for_ready"
                         THEN "start" ELSE "stop"]_vars
    /\ (pc[target] \in {"stop", "stop_wait"}) ~> (pc[target] = "idle")
    /\ (pc[target] = "wait_for_ready" /\ polls[target] = 0)
          ~> (pc[target] = "idle")

\* A start() whose child never became ready within the timeout and did not
\* exit on SIGTERM has returned False, after the kill.
C36_Witness ==
    /\ ret.op = "start" /\ ~ret.ok /\ ret.how = "killed" /\ ret.on = target
    /\ polls[target] = MaxPolls
    /\ ~listening[target]
    /\ pc[target] = "idle"

====
